---- MODULE Spec2Model ----
(***************************************************************************)
(* Model of Lib/test/test_importlib/util.py: the context managers,         *)
(* importer mocks, decorator and class fixtures that save, change and      *)
(* restore the interpreter's import state (the attributes of the sys       *)
(* module) and the temporary files of the import tests.                    *)
(*                                                                         *)
(* Strings the code slices or splits (module names, file names) are        *)
(* sequences of one-character strings; a file system path is a sequence    *)
(* of such components.  The sys module is a record of its attributes.      *)
(***************************************************************************)
EXTENDS Integers, Sequences, FiniteSets, TLC

VARIABLES
    sys,     \* the sys module: a record of the attributes the helpers touch
    fs,      \* the file system: the set of paths that exist
    stack,   \* the active contexts / calls, innermost last
    mock,    \* the importer mock under test (None before construction)
    cls,     \* the class attributes of ZipSetupBase (_zip_path, data)
    decorated, \* what writes_bytecode_files returned (None before it is applied)
    last     \* the operation that just completed: its result and its inputs

vars == <<sys, fs, stack, mock, cls, decorated, last>>

----------------------------------------------------------------------------
(* Bounds of the model.                                                    *)

MaxDepth == 2       \* contexts nested inside one another
MaxOpen  == 1       \* uncache / create_modules contexts open at once
MaxNames == 2       \* names passed to one call of uncache / create_modules / a mock
MaxStem  == 3       \* characters before the suffix of a generated module name
MaxPath  == 3       \* entries of sys.path in the zip fixture

----------------------------------------------------------------------------
(* Python values.                                                          *)

None == [py |-> "None"]

EmptyDict == [k \in {} |-> None]

Top(s) == s[Len(s)]
Pop(s) == SubSeq(s, 1, Len(s) - 1)

\* dict without key k (del d[k] for a key that is present)
DictDel(d, k) == [x \in (DOMAIN d) \ {k} |-> d[x]]
\* dict with d[k] = v
DictSet(d, k, v) == [x \in (DOMAIN d) \cup {k} |-> IF x = k THEN v ELSE d[x]]

\* the sequences over S of length at most n
SeqsUpTo(S, n) == UNION {[1..k -> S] : k \in 0..n}

Range(f) == {f[x] : x \in DOMAIN f}

\* module names, character by character
aName       == <<"a">>
bName       == <<"b">>
sysName     == <<"s", "y", "s">>
marshalName == <<"m", "a", "r", "s", "h", "a", "l">>
impName     == <<"i", "m", "p">>

----------------------------------------------------------------------------
(* import_state: the context manager over the four import attributes      *)

\* the (attr, default) pairs of the for loop, in its order
StateAttrs == <<"meta_path", "path", "path_hooks", "path_importer_cache">>

StateDefault(attr) == IF attr = "path_importer_cache" THEN EmptyDict ELSE <<>>

\* One iteration per attribute: save the current value, then rebind it to the
\* keyword's value (removing the keyword) or to the default.
\* The result is [sys, originals, kwargs] after the loop.
RECURSIVE ImportStateLoop(_, _, _, _)
ImportStateLoop(i, s, originals, kwargs) ==
    IF i > Len(StateAttrs)
    THEN [sys |-> s, originals |-> originals, kwargs |-> kwargs]
    ELSE LET attr == StateAttrs[i]
         IN  IF attr \in DOMAIN kwargs
             THEN ImportStateLoop(i + 1, [s EXCEPT ![attr] = kwargs[attr]],
                                  DictSet(originals, attr, s[attr]),
                                  DictDel(kwargs, attr))
             ELSE ImportStateLoop(i + 1, [s EXCEPT ![attr] = StateDefault(attr)],
                                  DictSet(originals, attr, s[attr]),
                                  kwargs)

\* import_state with the finally clause forgetting one attribute
ImportStateRestoreSkipsHooks(s, originals) ==
    [a \in DOMAIN s |-> IF a \in DOMAIN originals /\ a # "path_hooks"
                        THEN originals[a] ELSE s[a]]


\* the finally clause: setattr(sys, attr, value) for every saved attribute
ImportStateRestore(s, originals) ==
    [a \in DOMAIN s |-> IF a \in DOMAIN originals THEN originals[a] ELSE s[a]]

\* import_state raising for the unrecognized arguments outside its try block
ImportStateEnterRaisesUnprotected(s, kwargs) ==
    LET st == ImportStateLoop(1, s, EmptyDict, kwargs)
    IN  [sys       |-> st.sys,
         originals |-> st.originals,
         raised    |-> IF DOMAIN st.kwargs # {} THEN "ValueError" ELSE "none"]

\* The generator up to its yield: [sys, originals, raised].
ImportStateEnter(s, kwargs) ==
    LET st == ImportStateLoop(1, s, EmptyDict, kwargs)
    IN  IF DOMAIN st.kwargs # {}
        THEN [sys       |-> ImportStateRestore(st.sys, st.originals),
              originals |-> st.originals,
              raised    |-> "ValueError"]
        ELSE [sys |-> st.sys, originals |-> st.originals, raised |-> "none"]

----------------------------------------------------------------------------
(* The values the import attributes take in the model.                     *)

DirD == << <<"d">> >>        \* the directory d, as a path
Importer == [py |-> "importer"]

\* a value other than the default, per attribute
StateCustom(attr) ==
    CASE attr = "meta_path"           -> <<"finder">>
      [] attr = "path"                -> <<DirD>>
      [] attr = "path_hooks"          -> <<"hook">>
      [] attr = "path_importer_cache" -> [p \in {DirD} |-> Importer]

StateValues(attr) == {StateDefault(attr), StateCustom(attr)}

StateAttrSet == {StateAttrs[i] : i \in 1..Len(StateAttrs)}

\* keyword names a caller may pass: the four supported ones and two others
KwKeys == StateAttrSet \cup {"modules", "bogus"}

\* the keyword sets of the calls: any supported ones, at most one other
KwKeySets == {ks \in SUBSET KwKeys : Cardinality(ks \ StateAttrSet) <= 1}

KwValue(k) == IF k \in StateAttrSet THEN StateCustom(k) ELSE EmptyDict

EnvModule(n) == [owner |-> "env", name |-> n]

SysInit(names) ==
    [meta_path           |-> StateCustom("meta_path"),
     path                |-> StateCustom("path"),
     path_hooks          |-> StateCustom("path_hooks"),
     path_importer_cache |-> StateCustom("path_importer_cache"),
     modules             |-> [n \in names |-> EnvModule(n)],
     dont_write_bytecode |-> "False"]

\* the four import attributes of a sys record
ImportAttrs(s) == [a \in StateAttrSet |-> s[a]]

----------------------------------------------------------------------------
(* import_state as a context: entry, the with-body, exit.                  *)

\* with import_state(**kwargs): the generator runs to its yield or raises
EnterImportState(kwargs) ==
    /\ Len(stack) < MaxDepth
    /\ \E r \in {ImportStateEnter(sys, kwargs)} :
           /\ sys' = r.sys
           /\ stack' = IF r.raised = "none"
                       THEN Append(stack, [kind      |-> "import_state",
                                           originals |-> r.originals,
                                           entry     |-> ImportAttrs(sys)])
                       ELSE stack
           /\ last' = [op      |-> "import_state.enter",
                       unknown |-> DOMAIN kwargs \ StateAttrSet,
                       rebound |-> \E a \in StateAttrSet :
                                      sys[a] # (IF a \in DOMAIN kwargs
                                                THEN kwargs[a]
                                                ELSE StateDefault(a)),
                       raised  |-> r.raised,
                       before  |-> ImportAttrs(sys),
                       depth   |-> Len(stack)]
    /\ UNCHANGED <<fs, mock, cls, decorated>>

\* the body of a with-block (or code between contexts) rebinds an attribute
BodyRebind(attr, v) ==
    /\ sys[attr] # v
    /\ sys' = [sys EXCEPT ![attr] = v]
    /\ last' = [op |-> "body"]
    /\ UNCHANGED <<fs, stack, mock, cls, decorated>>

\* the with-block is left, normally (exc = FALSE) or by an exception thrown
\* into the generator at its yield: either way the finally clause runs
ExitImportState(exc) ==
    /\ stack # <<>>
    /\ Top(stack).kind = "import_state"
    /\ sys' = ImportStateRestore(sys, Top(stack).originals)
    /\ stack' = Pop(stack)
    /\ last' = [op    |-> "import_state.exit",
                exc   |-> exc,
                entry |-> Top(stack).entry,
                rebound |-> \A a \in StateAttrSet : sys[a] # Top(stack).entry[a],
                depth |-> Len(stack)]
    /\ UNCHANGED <<fs, mock, cls, decorated>>

InitImportState ==
    /\ sys = SysInit({sysName})
    /\ fs = {}
    /\ stack = <<>>
    /\ mock = None
    /\ cls = None
    /\ decorated = None
    /\ last = [op |-> "init"]

NextImportState ==
    \/ \E keys \in KwKeySets : EnterImportState([k \in keys |-> KwValue(k)])
    \/ \E i \in 1..Len(StateAttrs) :
           \E v \in StateValues(StateAttrs[i]) : BodyRebind(StateAttrs[i], v)
    \/ \E exc \in BOOLEAN : ExitImportState(exc)

SpecImportState == InitImportState /\ [][NextImportState]_vars

\* C1: when a context entered by import_state with supported keywords only is
\* left, normally or by an exception, at any nesting depth, sys.meta_path,
\* sys.path, sys.path_hooks and sys.path_importer_cache are each bound to the
\* value they had immediately before that context was entered.
C1_ImportStateRestored ==
    last.op = "import_state.exit" => ImportAttrs(sys) = last.entry

\* C1 witness: an inner (nested) context is left by an exception after the
\* body rebound all four attributes away from their values at entry.
C1_Witness ==
    /\ last.op = "import_state.exit"
    /\ last.exc
    /\ last.depth = 2
    /\ last.rebound
    /\ ImportAttrs(sys) = last.entry

\* C2: entering import_state with a keyword other than the four supported
\* ones raises ValueError without running the body, and leaves the four sys
\* attributes bound to the values they had before the call.
C2_UnknownKeywordRejected ==
    (last.op = "import_state.enter" /\ last.unknown # {})
        => /\ last.raised = "ValueError"
           /\ Len(stack) = last.depth
           /\ ImportAttrs(sys) = last.before

\* C2 witness: import_state(modules=...) was refused after its loop had
\* rebound attributes of sys to other values than they had.
C2_Witness ==
    /\ last.op = "import_state.enter"
    /\ "modules" \in last.unknown
    /\ last.rebound
    /\ last.raised = "ValueError"

----------------------------------------------------------------------------
(* uncache: the context manager that removes names from sys.modules.       *)

\* the names uncache refuses
Protected == {sysName, marshalName, impName}

\* the loop before the yield gives up at the first protected name, whatever it
\* has deleted so far
UncacheEnterLoopChecksAfterDelete(names, i, modules) ==
    IF \E j \in 1..Len(names) : names[j] \in Protected
    THEN [modules |-> [n \in (DOMAIN modules) \ Range(names) |-> modules[n]],
          raised  |-> "ValueError"]
    ELSE [modules |-> [n \in (DOMAIN modules) \ Range(names) |-> modules[n]],
          raised  |-> "none"]

\* the loop before the yield checking every name before it deletes any
UncacheEnterLoopValidatesFirst(names, i, modules) ==
    IF \E j \in i..Len(names) : names[j] \in Protected
    THEN [modules |-> modules, raised |-> "ValueError"]
    ELSE [modules |-> [n \in (DOMAIN modules) \ {names[j] : j \in i..Len(names)}
                          |-> modules[n]],
          raised  |-> "none"]

\* The loop before the yield, from names[i] on: the check, then the delete
\* (a missing key is a KeyError the loop swallows).  [modules, raised]
RECURSIVE UncacheEnterLoop(_, _, _)
UncacheEnterLoop(names, i, modules) ==
    IF i > Len(names) THEN [modules |-> modules, raised |-> "none"]
    ELSE IF names[i] \in Protected
         THEN [modules |-> modules, raised |-> "ValueError"]
         ELSE IF names[i] \in DOMAIN modules
              THEN UncacheEnterLoop(names, i + 1, DictDel(modules, names[i]))
              ELSE UncacheEnterLoop(names, i + 1, modules)

\* the finally clause stopping at the first name that is not cached
UncacheExitLoopStopsAtMissing(names, i, modules) ==
    LET missing == {j \in 1..Len(names) : names[j] \notin DOMAIN modules}
        gone    == {names[j] : j \in {k \in 1..Len(names) :
                                         \A m \in missing : k < m}}
    IN  [n \in (DOMAIN modules) \ gone |-> modules[n]]

\* The finally clause, from names[i] on: delete each name, swallowing KeyError.
RECURSIVE UncacheExitLoop(_, _, _)
UncacheExitLoop(names, i, modules) ==
    IF i > Len(names) THEN modules
    ELSE IF names[i] \in DOMAIN modules
         THEN UncacheExitLoop(names, i + 1, DictDel(modules, names[i]))
         ELSE UncacheExitLoop(names, i + 1, modules)

\* the names of the uncache calls, and the keys the bodies insert
UncacheNames == Protected \cup {aName, bName}

\* with uncache(*names): the generator runs to its yield or raises
EnterUncache(names) ==
    /\ Len(stack) < MaxOpen
    /\ \E r \in {UncacheEnterLoop(names, 1, sys.modules)} :
           /\ sys' = [sys EXCEPT !.modules = r.modules]
           /\ stack' = IF r.raised = "none"
                       THEN Append(stack, [kind |-> "uncache", names |-> names])
                       ELSE stack
           /\ last' = [op     |-> "uncache.enter",
                       names  |-> names,
                       raised |-> r.raised,
                       before |-> sys.modules,
                       depth  |-> Len(stack)]
    /\ UNCHANGED <<fs, mock, cls, decorated>>

\* the body (or code outside any context) caches a module under name n
BodyInsertModule(n) ==
    /\ n \notin DOMAIN sys.modules
    /\ sys' = [sys EXCEPT !.modules = DictSet(sys.modules, n, EnvModule(n))]
    /\ last' = [op |-> "body"]
    /\ UNCHANGED <<fs, stack, mock, cls, decorated>>

\* the body removes a module from the cache
BodyDeleteModule(n) ==
    /\ n \in DOMAIN sys.modules
    /\ sys' = [sys EXCEPT !.modules = DictDel(sys.modules, n)]
    /\ last' = [op |-> "body"]
    /\ UNCHANGED <<fs, stack, mock, cls, decorated>>

\* the with-block is left, normally or by an exception: the finally clause
ExitUncache(exc) ==
    /\ stack # <<>>
    /\ Top(stack).kind = "uncache"
    /\ sys' = [sys EXCEPT !.modules =
                  UncacheExitLoop(Top(stack).names, 1, sys.modules)]
    /\ stack' = Pop(stack)
    /\ last' = [op     |-> "uncache.exit",
                names  |-> Top(stack).names,
                exc    |-> exc,
                raised |-> "none",
                before |-> sys.modules]
    /\ UNCHANGED <<fs, mock, cls, decorated>>

InitUncache ==
    /\ sys = SysInit({sysName, marshalName, bName})
    /\ fs = {}
    /\ stack = <<>>
    /\ mock = None
    /\ cls = None
    /\ decorated = None
    /\ last = [op |-> "init"]

NextUncache ==
    \/ \E names \in SeqsUpTo(UncacheNames, MaxNames) : EnterUncache(names)
    \/ \E n \in UncacheNames : BodyInsertModule(n)
    \/ \E n \in UncacheNames \ Protected : BodyDeleteModule(n)
    \/ \E exc \in BOOLEAN : ExitUncache(exc)

SpecUncache == InitUncache /\ [][NextUncache]_vars

\* C3: for uncache(*names) with no protected name, entering raises nothing
\* (also for names that are not cached) and none of the names is a key of
\* sys.modules when the body starts; none is a key after the context is left,
\* normally or by an exception, whatever the body inserted; and neither the
\* entry nor the exit removes or rebinds an entry under any other key.
C3_UncacheRemovesNames ==
    /\ (last.op = "uncache.enter" /\ Range(last.names) \cap Protected = {})
          => /\ last.raised = "none"
             /\ Len(stack) = last.depth + 1
             /\ Top(stack).names = last.names
    /\ (last.op \in {"uncache.enter", "uncache.exit"}
        /\ Range(last.names) \cap Protected = {})
          => /\ Range(last.names) \cap DOMAIN sys.modules = {}
             /\ last.raised = "none"
             /\ \A k \in (DOMAIN last.before) \ Range(last.names) :
                    k \in DOMAIN sys.modules /\ sys.modules[k] = last.before[k]

\* C3 witness: uncache(a, b) is left by an exception with a cached by the body
\* and b not cached, while other modules stay cached.
C3_Witness ==
    /\ last.op = "uncache.exit"
    /\ last.exc
    /\ last.names = <<aName, bName>>
    /\ aName \in DOMAIN last.before
    /\ bName \notin DOMAIN last.before
    /\ impName \in DOMAIN sys.modules

\* C4: uncache with 'sys', 'marshal' or 'imp' among its names raises
\* ValueError and the body does not run; and no entry or exit of uncache
\* deletes the sys.modules entry of any of the three.
C4_ProtectedNamesRefused ==
    /\ (last.op = "uncache.enter" /\ Range(last.names) \cap Protected # {})
          => last.raised = "ValueError" /\ Len(stack) = last.depth
    /\ last.op \in {"uncache.enter", "uncache.exit"}
          => \A p \in Protected \cap DOMAIN last.before :
                 p \in DOMAIN sys.modules

\* C4 witness: uncache(a, imp) was refused while imp was cached.
C4_Witness ==
    /\ last.op = "uncache.enter"
    /\ last.names = <<aName, impName>>
    /\ last.raised = "ValueError"
    /\ impName \in DOMAIN last.before
    /\ impName \in DOMAIN sys.modules

\* the names uncache(*names) reaches before its first protected name
NamesBeforeProtected(names) ==
    {names[j] : j \in {k \in 1..Len(names) :
                          \A m \in 1..k : names[m] \notin Protected}}

\* C11 as stated: when uncache raises ValueError for a protected name,
\* sys.modules is exactly as it was before the call, no entry of any other
\* name having been removed, wherever the name stands in the argument list.
C11_RefusalLeavesModulesAsStated ==
    (last.op = "uncache.enter" /\ last.raised = "ValueError")
        => sys.modules = last.before

\* C11 as amended: when uncache raises ValueError for a protected name, the
\* entries of the names standing before the first protected name have been
\* removed from sys.modules, and every other entry (of a name standing only
\* after it, or of a key that is not named) is as it was before the call.
C11_RefusalKeepsEarlierDeletions ==
    (last.op = "uncache.enter" /\ last.raised = "ValueError")
        => /\ DOMAIN sys.modules
                 = (DOMAIN last.before) \ NamesBeforeProtected(last.names)
           /\ \A k \in DOMAIN sys.modules : sys.modules[k] = last.before[k]

\* C11 witness: uncache(b, sys) was refused with b cached before the call,
\* and b is no longer cached while sys still is.
C11_Witness ==
    /\ last.op = "uncache.enter"
    /\ last.raised = "ValueError"
    /\ last.names = <<bName, sysName>>
    /\ bName \in DOMAIN last.before
    /\ bName \notin DOMAIN sys.modules
    /\ sysName \in DOMAIN sys.modules

----------------------------------------------------------------------------
(* Strings: str.endswith, the slice s[:-n] and str.split('.').             *)

EndsWith(s, suffix) ==
    /\ Len(s) >= Len(suffix)
    /\ SubSeq(s, Len(s) - Len(suffix) + 1, Len(s)) = suffix

\* s[:-n] for n > 0: everything but the last n characters, '' when there are
\* no more than n
DropLast(s, n) == IF Len(s) > n THEN SubSeq(s, 1, Len(s) - n) ELSE <<>>

\* s.split('.') from position i on, cur being the part read so far
RECURSIVE SplitFrom(_, _, _)
SplitFrom(s, i, cur) ==
    IF i > Len(s) THEN <<cur>>
    ELSE IF s[i] = "." THEN <<cur>> \o SplitFrom(s, i + 1, <<>>)
         ELSE SplitFrom(s, i + 1, Append(cur, s[i]))

SplitDot(s) == SplitFrom(s, 1, <<>>)

InitSuffix    == <<"_", "_", "i", "n", "i", "t", "_", "_">>      \* '__init__'
DotInitSuffix == <<".">> \o InitSuffix                            \* '.__init__'
DotPy         == <<".", "p", "y">>                                \* '.py'
RootKey       == <<".", "r", "o", "o", "t">>                      \* '.root'

----------------------------------------------------------------------------
(* The import name of a module name, as each helper derives it.            *)

\* create_modules: the test is endswith('__init__'), the slice drops
\* len('.__init__') characters
CreateModulesImportName(name) ==
    IF ~EndsWith(name, InitSuffix) THEN name
    ELSE DropLast(name, Len(DotInitSuffix))

\* _ImporterMock.__init__: the test is endswith('.__init__')
ImporterMockImportName(name) ==
    IF ~EndsWith(name, DotInitSuffix) THEN name
    ELSE DropLast(name, Len(DotInitSuffix))

\* the module names the derivations are compared on: a stem of letters, dots
\* and underscores followed by nothing, '.__init__', '__init__' or 'init'
StemChars == {"a", ".", "_"}
NameSuffixes == {<<>>, DotInitSuffix, InitSuffix, <<"i", "n", "i", "t">>}
NameInputs == {stem \o suffix : stem \in SeqsUpTo(StemChars, MaxStem),
                                suffix \in NameSuffixes}

\* both helpers are given the module name and derive its import name
DeriveImportName(name) ==
    /\ last' = [op             |-> "import_name",
                name           |-> name,
                create_modules |-> CreateModulesImportName(name),
                importer_mock  |-> ImporterMockImportName(name)]
    /\ UNCHANGED <<sys, fs, stack, mock, cls, decorated>>

InitImportName ==
    /\ sys = SysInit({sysName})
    /\ fs = {}
    /\ stack = <<>>
    /\ mock = None
    /\ cls = None
    /\ decorated = None
    /\ last = [op |-> "init"]

NextImportName == \E name \in NameInputs : DeriveImportName(name)

SpecImportName == InitImportName /\ [][NextImportName]_vars

\* C9: for every module name, create_modules and _ImporterMock derive the
\* same import name: the name without its trailing '.__init__' when it ends
\* with '.__init__', and the name itself otherwise.
C9_SameImportName ==
    last.op = "import_name" =>
        LET expected == IF EndsWith(last.name, DotInitSuffix)
                        THEN SubSeq(last.name, 1,
                                    Len(last.name) - Len(DotInitSuffix))
                        ELSE last.name
        IN  /\ last.create_modules = expected
            /\ last.importer_mock = expected

\* What holds of the code instead: _ImporterMock derives the import name so,
\* and create_modules agrees with it on every name that does not end in
\* '__init__' without the dot before it.
ImportNamesAgreeOffBareInit ==
    last.op = "import_name" =>
        /\ last.importer_mock =
               (IF EndsWith(last.name, DotInitSuffix)
                THEN SubSeq(last.name, 1, Len(last.name) - Len(DotInitSuffix))
                ELSE last.name)
        /\ (EndsWith(last.name, DotInitSuffix)
            \/ ~EndsWith(last.name, InitSuffix))
               => last.create_modules = last.importer_mock

----------------------------------------------------------------------------
(* create_modules: source files in a temporary directory that is put on    *)
(* sys.path.  A path is the sequence of its components.                    *)

IsUnder(dir, p) == Len(p) >= Len(dir) /\ SubSeq(p, 1, Len(dir)) = dir

\* support.rmtree(dir): dir and everything under it is gone
Rmtree(fsx, dir) == {p \in fsx : ~IsUnder(dir, p)}

\* the orders in which a set can be iterated
Orders(S) == {f \in [1..Cardinality(S) -> S] : \A i, j \in DOMAIN f :
                                                   f[i] = f[j] => i = j}

\* for directory in name_parts[:-1]: descend, creating what does not exist.
\* [file_path, fs, created]
RECURSIVE CreateModulesDirs(_, _, _, _, _)
CreateModulesDirs(parts, i, file_path, fsx, created) ==
    IF i > Len(parts) - 1
    THEN [file_path |-> file_path, fs |-> fsx, created |-> created]
    ELSE IF Append(file_path, parts[i]) \notin fsx
         THEN CreateModulesDirs(parts, i + 1, Append(file_path, parts[i]),
                                fsx \cup {Append(file_path, parts[i])},
                                created \cup {Append(file_path, parts[i])})
         ELSE CreateModulesDirs(parts, i + 1, Append(file_path, parts[i]),
                                fsx, created)

\* the file written for one name: its directories, then name_parts[-1] + '.py'
CreateModulesFile(name, temp_dir, fsx, created) ==
    LET parts == SplitDot(name)
        d     == CreateModulesDirs(parts, 1, <<temp_dir>>, fsx, created)
        file  == Append(d.file_path, parts[Len(parts)] \o DotPy)
    IN  [file_path |-> file,
         fs        |-> d.fs \cup {file},
         created   |-> d.created \cup {file}]

\* for name in names: the import name is uncached and the source file written.
\* st = [modules, fs, created_paths, mapping, import_names]
RECURSIVE CreateModulesLoop(_, _, _, _)
CreateModulesLoop(names, i, temp_dir, st) ==
    IF i > Len(names) THEN st
    ELSE \* bound once, so that each step is computed once
         LET import_name == CreateModulesImportName(names[i])
             f == CHOOSE r \in {CreateModulesFile(names[i], temp_dir, st.fs,
                                                  st.created_paths)} : TRUE
             next == [modules       |-> IF import_name \in DOMAIN st.modules
                                        THEN DictDel(st.modules, import_name)
                                        ELSE st.modules,
                      fs            |-> f.fs,
                      created_paths |-> f.created,
                      mapping       |-> DictSet(st.mapping, names[i], f.file_path),
                      import_names  |-> st.import_names \cup {import_name}]
         IN  CreateModulesLoop(names, i + 1, temp_dir,
                               CHOOSE r \in {next} : TRUE)

\* create_modules leaving the import path as it set it
CreateModulesExitKeepsState(s, fsx, frame, order) ==
    [sys |-> [s EXCEPT !.modules = UncacheExitLoop(order, 1, s.modules)],
     fs  |-> Rmtree(fsx, <<frame.temp_dir>>)]

\* the finally clause: the import state, then the cache, then the directory
CreateModulesExit(s, fsx, frame, order) ==
    LET restored == ImportStateRestore(s, frame.originals)
    IN  [sys |-> [restored EXCEPT !.modules =
                     UncacheExitLoop(order, 1, restored.modules)],
         fs  |-> Rmtree(fsx, <<frame.temp_dir>>)]

\* The generator up to its yield, temp_dir being what mkdtemp() returned and
\* order the order in which the set import_names is passed to uncache.
\* [sys, fs, raised, frame]
CreateModulesEnter(s, fsx, names, temp_dir, order, st) ==
    LET u == UncacheEnterLoop(order, 1, st.modules)
        e == ImportStateEnter([s EXCEPT !.modules = u.modules],
                              [k \in {"path"} |-> << <<temp_dir>> >>])
    IN  IF u.raised # "none"
        THEN \* uncache_manager.__enter__() raised: state_manager is None, the
             \* exit of the finished generator does nothing, rmtree runs
             [sys    |-> [s EXCEPT !.modules = u.modules],
              fs     |-> Rmtree(st.fs, <<temp_dir>>),
              raised |-> u.raised,
              frame  |-> None]
        ELSE [sys    |-> e.sys,
              fs     |-> st.fs,
              raised |-> "none",
              frame  |-> [kind          |-> "create_modules",
                          temp_dir      |-> temp_dir,
                          mapping       |-> st.mapping,
                          import_names  |-> st.import_names,
                          created_paths |-> st.created_paths,
                          originals     |-> e.originals,
                          entry         |-> ImportAttrs(s)]]

\* the names mkdtemp() may return
TempDirs == {<<"t", "1">>, <<"t", "2">>}

\* the module names given to create_modules: the __init__ of a package, and
\* a module whose name ends in '__init__' without a dot
pkgInitName  == <<"a">> \o DotInitSuffix
bareInitName == <<"a">> \o InitSuffix
CreateNames  == {pkgInitName, bareInitName}

\* the names under which the bodies cache modules: the names the import
\* system gives the created files (and what create_modules derives from them)
CreateKeys == {ImporterMockImportName(n) : n \in CreateNames}
                  \cup {CreateModulesImportName(n) : n \in CreateNames}

\* a bytecode file a body's imports write beside the sources
BytecodeFile(temp_dir) == <<temp_dir, <<"a", ".", "p", "y", "c">> >>

\* with create_modules(*names) as mapping:
EnterCreateModules(names, temp_dir) ==
    /\ Len(stack) < MaxOpen
    /\ <<temp_dir>> \notin fs
    /\ \E st \in {CreateModulesLoop(names, 1, temp_dir,
                     [modules       |-> sys.modules,
                      fs            |-> fs \cup {<<temp_dir>>},
                      created_paths |-> {},
                      mapping       |-> [k \in {RootKey} |-> <<temp_dir>>],
                      import_names  |-> {}])} :
         \E order \in Orders(st.import_names) :
           \E r \in {CreateModulesEnter(sys, fs, names, temp_dir, order, st)} :
               /\ sys' = r.sys
               /\ fs' = r.fs
               /\ stack' = IF r.raised = "none" THEN Append(stack, r.frame)
                           ELSE stack
               /\ last' = [op     |-> "create_modules.enter",
                           names  |-> Range(names),
                           raised |-> r.raised]
    /\ UNCHANGED <<mock, cls, decorated>>

\* an import in the body writes a bytecode file into the temporary directory
BodyWriteBytecode ==
    /\ stack # <<>>
    /\ Top(stack).kind = "create_modules"
    /\ BytecodeFile(Top(stack).temp_dir) \notin fs
    /\ fs' = fs \cup {BytecodeFile(Top(stack).temp_dir)}
    /\ last' = [op |-> "body"]
    /\ UNCHANGED <<sys, stack, mock, cls, decorated>>

\* the with-block is left, normally or by an exception: the finally clause
ExitCreateModules(exc) ==
    /\ stack # <<>>
    /\ Top(stack).kind = "create_modules"
    /\ \E order \in Orders(Top(stack).import_names) :
         \E r \in {CreateModulesExit(sys, fs, Top(stack), order)} :
             /\ sys' = r.sys
             /\ fs' = r.fs
    /\ stack' = Pop(stack)
    /\ last' = [op           |-> "create_modules.exit",
                exc          |-> exc,
                names        |-> DOMAIN Top(stack).mapping \ {RootKey},
                temp_dir     |-> Top(stack).temp_dir,
                created      |-> Top(stack).created_paths,
                import_names |-> Top(stack).import_names,
                entry        |-> Top(stack).entry,
                dirty        |->
                    /\ Top(stack).import_names \cap DOMAIN sys.modules # {}
                    /\ BytecodeFile(Top(stack).temp_dir) \in fs
                    /\ sys.path # << <<Top(stack).temp_dir>> >>]
    /\ UNCHANGED <<mock, cls, decorated>>

InitCreateModules ==
    /\ sys = SysInit({sysName})
    /\ fs = {}
    /\ stack = <<>>
    /\ mock = None
    /\ cls = None
    /\ decorated = None
    /\ last = [op |-> "init"]

NextCreateModules ==
    \/ \E names \in SeqsUpTo(CreateNames, MaxNames) :
           \E temp_dir \in TempDirs : EnterCreateModules(names, temp_dir)
    \/ \E n \in CreateKeys : BodyInsertModule(n)
    \/ \E n \in CreateKeys : BodyDeleteModule(n)
    \/ \E v \in StateValues("path") : BodyRebind("path", v)
    \/ BodyWriteBytecode
    \/ \E exc \in BOOLEAN : ExitCreateModules(exc)

SpecCreateModules == InitCreateModules /\ [][NextCreateModules]_vars

\* C5: after a create_modules context is left, normally or by an exception,
\* the temporary directory and every file and directory created under it are
\* gone, the four import attributes of sys are as before entry, and no import
\* name create_modules derived from the names (its import_names) is a key of
\* sys.modules.
C5_CreateModulesCleansUp ==
    last.op = "create_modules.exit" =>
        /\ \A p \in fs : ~IsUnder(<<last.temp_dir>>, p)
        /\ last.created \cap fs = {}
        /\ ImportAttrs(sys) = last.entry
        /\ last.import_names \cap DOMAIN sys.modules = {}

\* C5 witness: create_modules('a.__init__', 'a__init__') is left by an
\* exception after the body cached one of the import names, wrote a bytecode
\* file into the temporary directory and rebound sys.path.
C5_Witness ==
    /\ last.op = "create_modules.exit"
    /\ last.exc
    /\ last.dirty
    /\ last.names = {pkgInitName, bareInitName}
    /\ Cardinality(last.created) = 3
    /\ fs = {}

----------------------------------------------------------------------------
(* writes_bytecode_files: the decorator around sys.dont_write_bytecode.    *)

\* values the flag is given; the decorator tests its truth value
FlagValues == {"False", "True", "0", "1"}
Truthy(v) == v \in {"True", "1"}

\* the decorator applied: a lambda returning None, or the wrapper
WritesBytecodeFiles(s) ==
    IF Truthy(s.dont_write_bytecode) THEN "lambda" ELSE "wrapper"

\* the wrapper up to the call of fxn: [sys, original]
WrapperEnter(s) ==
    [sys      |-> [s EXCEPT !.dont_write_bytecode = "False"],
     original |-> s.dont_write_bytecode]

\* the wrapper restoring the flag only when fxn returns
WrapperExitNoFinally(s, original, exc) ==
    IF exc THEN s ELSE [s EXCEPT !.dont_write_bytecode = original]

\* the wrapper after fxn returned or raised: the finally clause
WrapperExit(s, original, exc) == [s EXCEPT !.dont_write_bytecode = original]

\* @writes_bytecode_files is applied to a test function
Decorate ==
    /\ stack = <<>>
    /\ decorated' = [kind    |-> WritesBytecodeFiles(sys),
                     applied |-> sys.dont_write_bytecode]
    /\ last' = [op |-> "decorate"]
    /\ UNCHANGED <<sys, fs, stack, mock, cls>>

\* the decorated function is called, by a test or by fxn itself: the lambda
\* returns None; the wrapper sets the flag and calls fxn
CallDecorated ==
    /\ decorated # None
    /\ Len(stack) < MaxDepth
    /\ IF decorated.kind = "lambda"
       THEN /\ last' = [op      |-> "call.return",
                        invoked |-> FALSE,
                        result  |-> None,
                        exc     |-> FALSE,
                        before  |-> sys.dont_write_bytecode]
            /\ UNCHANGED <<sys, stack>>
       ELSE \E r \in {WrapperEnter(sys)} :
                /\ sys' = r.sys
                /\ stack' = Append(stack, [kind     |-> "wrapper",
                                           original |-> r.original,
                                           before   |-> sys.dont_write_bytecode])
                /\ last' = [op |-> "call.fxn"]
    /\ UNCHANGED <<fs, mock, cls, decorated>>

\* fxn, or any code between calls, assigns sys.dont_write_bytecode
AssignFlag(v) ==
    /\ sys.dont_write_bytecode # v
    /\ sys' = [sys EXCEPT !.dont_write_bytecode = v]
    /\ last' = [op |-> "body"]
    /\ UNCHANGED <<fs, stack, mock, cls, decorated>>

\* fxn returns its result (exc = FALSE) or raises
ReturnDecorated(exc) ==
    /\ stack # <<>>
    /\ Top(stack).kind = "wrapper"
    /\ sys' = WrapperExit(sys, Top(stack).original, exc)
    /\ stack' = Pop(stack)
    /\ last' = [op       |-> "call.return",
                invoked  |-> TRUE,
                result   |-> IF exc THEN None ELSE [py |-> "to_return"],
                exc      |-> exc,
                before   |-> Top(stack).before,
                assigned |-> sys.dont_write_bytecode]
    /\ UNCHANGED <<fs, mock, cls, decorated>>

InitBytecode ==
    /\ sys \in {[SysInit({sysName}) EXCEPT !.dont_write_bytecode = v] :
                    v \in FlagValues}
    /\ fs = {}
    /\ stack = <<>>
    /\ mock = None
    /\ cls = None
    /\ decorated = None
    /\ last = [op |-> "init"]

NextBytecode ==
    \/ Decorate
    \/ CallDecorated
    \/ \E v \in FlagValues : AssignFlag(v)
    \/ \E exc \in BOOLEAN : ReturnDecorated(exc)

SpecBytecode == InitBytecode /\ [][NextBytecode]_vars

\* C6: if sys.dont_write_bytecode is true when writes_bytecode_files is
\* applied, a call of the decorated function never invokes the original and
\* returns None; otherwise the original starts with the flag equal to False,
\* and after the call, returned or raised, whatever the original assigned, the
\* flag has the value it had immediately before the call.
C6_BytecodeFlagProtected ==
    /\ (decorated # None /\ Truthy(decorated.applied))
          => /\ stack = <<>>
             /\ last.op # "call.fxn"
             /\ last.op = "call.return"
                   => ~last.invoked /\ last.result = None /\ ~last.exc
    /\ (decorated # None /\ ~Truthy(decorated.applied))
          => /\ last.op = "call.fxn" => sys.dont_write_bytecode = "False"
             /\ last.op = "call.return" => last.invoked
    /\ last.op = "call.return" => sys.dont_write_bytecode = last.before

\* C6 witness: the wrapper was called with the flag true (set after the
\* decorator was applied), the original assigned another value and raised,
\* and the flag is back to what it was before the call.
C6_Witness ==
    /\ last.op = "call.return"
    /\ last.invoked
    /\ last.exc
    /\ last.before = "True"
    /\ last.assigned = "1"
    /\ sys.dont_write_bytecode = "True"

\* C6 witness of the skipped test: the lambda was called and returned None
C6_WitnessSkipped ==
    /\ last.op = "call.return"
    /\ ~last.invoked
    /\ Truthy(decorated.applied)

----------------------------------------------------------------------------
(* The importer mocks: _ImporterMock and its subclasses mock_modules (PEP    *)
(* 302: find_module, load_module) and mock_spec (PEP 451: find_spec,         *)
(* create_module).                                                           *)

Str(chars) == [py |-> "str", chars |-> chars]

\* name.rsplit('.', 1)[0] for a name with a dot in it
RECURSIVE RSplitHead(_)
RSplitHead(name) ==
    IF name[Len(name)] = "." THEN SubSeq(name, 1, Len(name) - 1)
    ELSE RSplitHead(SubSeq(name, 1, Len(name) - 1))

\* the module object __init__ builds for one name
MockModule(name) ==
    LET import_name == ImporterMockImportName(name)
    IN  [owner    |-> "mock",
         name     |-> import_name,
         file     |-> "<mock __file__>",
         package  |-> IF "." \notin Range(name) THEN None
                      ELSE IF import_name = name THEN Str(RSplitHead(name))
                      ELSE Str(import_name),
         attr     |-> name,
         has_path |-> import_name # name]

\* __init__ registering each module under the name it was given
ImporterMockLoopKeyedByName(names, i, modules, code, module_code) ==
    [modules     |-> [n \in Range(names) |-> MockModule(n)],
     module_code |-> [n \in Range(names) \cap DOMAIN module_code |->
                         module_code[n]]]

\* for name in names: build the module, register it under its import name,
\* and take over the callable module_code holds for that import name.
\* [modules, module_code]
RECURSIVE ImporterMockLoop(_, _, _, _, _)
ImporterMockLoop(names, i, modules, code, module_code) ==
    IF i > Len(names) THEN [modules |-> modules, module_code |-> code]
    ELSE IF ImporterMockImportName(names[i]) \in DOMAIN module_code
         THEN ImporterMockLoop(names, i + 1,
                  DictSet(modules, ImporterMockImportName(names[i]),
                          MockModule(names[i])),
                  DictSet(code, ImporterMockImportName(names[i]),
                          module_code[ImporterMockImportName(names[i])]),
                  module_code)
         ELSE ImporterMockLoop(names, i + 1,
                  DictSet(modules, ImporterMockImportName(names[i]),
                          MockModule(names[i])),
                  code, module_code)

\* What a module_code callable does when it is called for fullname: an effect
\* on sys.modules, then it returns or raises.
CodeEffects == {"nothing", "insert_other", "del_self", "rebind_self"}
CodeRaises  == {"none", "Exception", "BaseException"}
CodeBehaviours == [effect : CodeEffects, raises : CodeRaises]

otherName == <<"o">>

RunModuleCode(code, modules, fullname) ==
    CASE code.effect = "nothing"      -> modules
      [] code.effect = "insert_other" ->
             DictSet(modules, otherName, EnvModule(otherName))
      [] code.effect = "del_self"     ->
             IF fullname \in DOMAIN modules THEN DictDel(modules, fullname)
             ELSE modules
      [] code.effect = "rebind_self"  ->
             DictSet(modules, fullname, EnvModule(fullname))

\* mock_modules.find_module(fullname)
MockFindModule(m, fullname) ==
    IF fullname \notin DOMAIN m.modules THEN None ELSE m

\* load_module leaving the module cached when its code raises
MockLoadModuleKeepsFailed(m, modules, fullname) ==
    IF fullname \notin DOMAIN m.modules
    THEN [modules |-> modules, raised |-> "ImportError", result |-> None,
          called |-> FALSE, seen |-> modules, left |-> modules]
    ELSE LET seen == DictSet(modules, fullname, m.modules[fullname])
             left == IF fullname \in DOMAIN m.module_code
                     THEN RunModuleCode(m.module_code[fullname], seen, fullname)
                     ELSE seen
             exc  == IF fullname \in DOMAIN m.module_code
                     THEN m.module_code[fullname].raises ELSE "none"
         IN  [modules |-> left, raised |-> exc,
              result  |-> IF exc = "none" THEN m.modules[fullname] ELSE None,
              called  |-> fullname \in DOMAIN m.module_code,
              seen    |-> seen, left |-> left]

\* mock_modules.load_module(fullname): [modules, raised, result], and what
\* sys.modules was when the callable was called (seen) and when it ended (left)
MockLoadModule(m, modules, fullname) ==
    IF fullname \notin DOMAIN m.modules
    THEN [modules |-> modules, raised |-> "ImportError", result |-> None,
          called |-> FALSE, seen |-> modules, left |-> modules]
    ELSE LET seen == DictSet(modules, fullname, m.modules[fullname])
         IN  IF fullname \notin DOMAIN m.module_code
             THEN [modules |-> seen, raised |-> "none",
                   result |-> m.modules[fullname],
                   called |-> FALSE, seen |-> seen, left |-> seen]
             ELSE LET code == m.module_code[fullname]
                      left == RunModuleCode(code, seen, fullname)
                  IN  IF code.raises = "Exception"
                      THEN \* except Exception: del sys.modules[fullname]; raise
                           IF fullname \in DOMAIN left
                           THEN [modules |-> DictDel(left, fullname),
                                 raised |-> "Exception", result |-> None,
                                 called |-> TRUE, seen |-> seen, left |-> left]
                           ELSE [modules |-> left,
                                 raised |-> "KeyError", result |-> None,
                                 called |-> TRUE, seen |-> seen, left |-> left]
                      ELSE IF code.raises = "BaseException"
                      THEN [modules |-> left,
                            raised |-> "BaseException", result |-> None,
                            called |-> TRUE, seen |-> seen, left |-> left]
                      ELSE [modules |-> left, raised |-> "none",
                            result |-> m.modules[fullname],
                            called |-> TRUE, seen |-> seen, left |-> left]

\* mock_spec.find_spec(fullname): None, or what util.spec_from_file_location
\* returns for these arguments
MockFindSpec(m, fullname) ==
    IF fullname \notin DOMAIN m.modules THEN None
    ELSE [call     |-> "spec_from_file_location",
          name     |-> fullname,
          location |-> m.modules[fullname].file,
          loader   |-> "self",
          submodule_search_locations |->
              IF m.modules[fullname].has_path THEN Str(<<"<mock __path__>">>)
              ELSE None]

\* mock_spec.create_module(spec), name being spec.name: [raised, result]
MockCreateModule(m, name) ==
    IF name \notin DOMAIN m.modules
    THEN [raised |-> "ImportError", result |-> None]
    ELSE [raised |-> "none", result |-> m.modules[name]]

\* the names given to the mocks, the names they are asked for, the keys of the
\* module_code given to them, and the keys other code caches modules under
submodName    == <<"a", ".", "b">>
MockNames     == {aName, pkgInitName, submodName}
MockQueries   == {aName, submodName, pkgInitName, bName}
MockCodeKeys  == {aName, submodName, pkgInitName}
MockBodyKeys  == {aName, otherName}

\* module_code: empty, or one callable
ModuleCodes == {EmptyDict} \cup
    {[k \in {key} |-> code] : key \in MockCodeKeys, code \in CodeBehaviours}

\* mock_modules(*names, module_code=...) or mock_spec(*names)
ConstructMock(kind, names, module_code) ==
    /\ mock = None
    /\ \E r \in {ImporterMockLoop(names, 1, EmptyDict, EmptyDict, module_code)} :
           mock' = [kind        |-> kind,
                    modules     |-> r.modules,
                    module_code |-> r.module_code,
                    names       |-> Range(names)]
    /\ last' = [op |-> "construct"]
    /\ UNCHANGED <<sys, fs, stack, cls, decorated>>

FindModule(fullname) ==
    /\ mock # None
    /\ mock.kind = "mock_modules"
    /\ last' = [op       |-> "find_module",
                fullname |-> fullname,
                result   |-> MockFindModule(mock, fullname)]
    /\ UNCHANGED <<sys, fs, stack, mock, cls, decorated>>

LoadModule(fullname) ==
    /\ mock # None
    /\ mock.kind = "mock_modules"
    /\ \E r \in {MockLoadModule(mock, sys.modules, fullname)} :
           /\ sys' = [sys EXCEPT !.modules = r.modules]
           /\ last' = [op       |-> "load_module",
                       fullname |-> fullname,
                       raised   |-> r.raised,
                       result   |-> r.result,
                       called   |-> r.called,
                       seen     |-> r.seen,
                       left     |-> r.left,
                       before   |-> sys.modules]
    /\ UNCHANGED <<fs, stack, mock, cls, decorated>>

FindSpec(fullname) ==
    /\ mock # None
    /\ mock.kind = "mock_spec"
    /\ last' = [op       |-> "find_spec",
                fullname |-> fullname,
                result   |-> MockFindSpec(mock, fullname)]
    /\ UNCHANGED <<sys, fs, stack, mock, cls, decorated>>

CreateModule(name) ==
    /\ mock # None
    /\ mock.kind = "mock_spec"
    /\ \E r \in {MockCreateModule(mock, name)} :
           last' = [op       |-> "create_module",
                    fullname |-> name,
                    raised   |-> r.raised,
                    result   |-> r.result,
                    before   |-> sys.modules]
    /\ UNCHANGED <<sys, fs, stack, mock, cls, decorated>>

InitMock ==
    /\ sys = SysInit({sysName})
    /\ fs = {}
    /\ stack = <<>>
    /\ mock = None
    /\ cls = None
    /\ decorated = None
    /\ last = [op |-> "init"]

NextMock ==
    \/ \E names \in SeqsUpTo(MockNames, MaxNames) :
           \E module_code \in ModuleCodes :
               ConstructMock("mock_modules", names, module_code)
    \/ \E names \in SeqsUpTo(MockNames, MaxNames) :
           ConstructMock("mock_spec", names, EmptyDict)
    \/ \E n \in MockBodyKeys : BodyInsertModule(n)
    \/ \E n \in MockBodyKeys : BodyDeleteModule(n)
    \/ \E fullname \in MockQueries : FindModule(fullname)
    \/ \E fullname \in MockQueries : LoadModule(fullname)
    \/ \E fullname \in MockQueries : FindSpec(fullname)
    \/ \E fullname \in MockQueries : CreateModule(fullname)

SpecMock == InitMock /\ [][NextMock]_vars

\* the module_code callable of the name load_module was called for
LastCode == mock.module_code[last.fullname]

\* C7 as stated: for a name the loader knows, load_module binds
\* sys.modules[name] to the loader's module before it calls the name's
\* callable; if the callable raises an Exception the entry is absent afterwards
\* and that exception propagates; if there is no callable or it returns,
\* sys.modules[name] is the loader's module and it is the value returned.
C7_LoadModuleAsStated ==
    (last.op = "load_module" /\ last.fullname \in DOMAIN mock.modules) =>
        /\ last.fullname \in DOMAIN last.seen
        /\ last.seen[last.fullname] = mock.modules[last.fullname]
        /\ (last.called /\ LastCode.raises = "Exception")
              => /\ last.fullname \notin DOMAIN sys.modules
                 /\ last.raised = "Exception"
        /\ (~last.called \/ LastCode.raises = "none")
              => /\ last.fullname \in DOMAIN sys.modules
                 /\ sys.modules[last.fullname] = mock.modules[last.fullname]
                 /\ last.raised = "none"
                 /\ last.result = mock.modules[last.fullname]

\* C7 as amended: as stated, except that the callable may itself have removed
\* or rebound sys.modules[name]: if it removed the entry and raises an
\* Exception, the entry stays absent and the KeyError of the del propagates
\* instead; if it returns, the loader's module is returned and
\* sys.modules[name] is as the callable left it.
C7_LoadModule ==
    (last.op = "load_module" /\ last.fullname \in DOMAIN mock.modules) =>
        /\ last.fullname \in DOMAIN last.seen
        /\ last.seen[last.fullname] = mock.modules[last.fullname]
        /\ (last.called /\ LastCode.raises = "Exception")
              => /\ last.fullname \notin DOMAIN sys.modules
                 /\ last.raised = IF last.fullname \in DOMAIN last.left
                                  THEN "Exception" ELSE "KeyError"
        /\ (~last.called \/ LastCode.raises = "none")
              => /\ last.raised = "none"
                 /\ last.result = mock.modules[last.fullname]
                 /\ sys.modules = last.left
                 /\ (~last.called \/ LastCode.effect \notin {"del_self", "rebind_self"})
                        => /\ last.fullname \in DOMAIN sys.modules
                           /\ sys.modules[last.fullname] =
                                  mock.modules[last.fullname]

\* C7 witness: the callable of a known name cached another module and raised
\* an Exception; the name is no longer cached, the other module is.
C7_Witness ==
    /\ last.op = "load_module"
    /\ last.called
    /\ LastCode = [effect |-> "insert_other", raises |-> "Exception"]
    /\ last.raised = "Exception"
    /\ last.fullname \in DOMAIN last.left
    /\ last.fullname \notin DOMAIN sys.modules
    /\ otherName \in DOMAIN sys.modules

\* the import names registered at construction
Registered == {ImporterMockImportName(n) : n \in mock.names}

\* C8: for both mocks a name is resolvable exactly when it is an import name
\* registered at construction: for any other name find_module and find_spec
\* return None, and load_module and create_module raise ImportError and leave
\* sys.modules unchanged; for a registered name find_module returns the mock,
\* find_spec a spec, and create_module the module stored for that name.
C8_ResolvableIffRegistered ==
    /\ last.op = "find_module"
          => last.result = (IF last.fullname \in Registered THEN mock ELSE None)
    /\ last.op = "find_spec"
          => (last.result = None <=> last.fullname \notin Registered)
    /\ last.op \in {"load_module", "create_module"}
          => /\ last.raised = "ImportError" <=> last.fullname \notin Registered
             /\ last.fullname \notin Registered => sys.modules = last.before
    /\ (last.op = "create_module" /\ last.fullname \in Registered)
          => /\ last.result = mock.modules[last.fullname]
             /\ last.result.owner = "mock"
             /\ last.result.name = last.fullname
             /\ last.result.attr \in mock.names

\* C8 witness: a mock built from 'a.__init__' alone was asked to create the
\* module 'a' and returned the package module it stores.
C8_Witness ==
    /\ last.op = "create_module"
    /\ mock.names = {pkgInitName}
    /\ last.fullname = aName
    /\ last.result.attr = pkgInitName
    /\ last.result.has_path

\* C8 witness of a refusal: the same kind of mock refused 'a.__init__' itself
C8_WitnessRefused ==
    /\ last.op = "load_module"
    /\ mock.names = {pkgInitName}
    /\ last.fullname = pkgInitName
    /\ last.raised = "ImportError"

----------------------------------------------------------------------------
(* ZipSetupBase: the class fixture that puts a zip file on sys.path.       *)

ZipPath == << <<"z", "i", "p">> >>     \* str(data_dir / 'ziptestdata.zip')
ziptestdataName == <<"z", "i", "p", "t", "e", "s", "t", "d", "a", "t", "a">>

\* list.remove(x): the first element equal to x is removed; ValueError if none
ListRemove(list, x) ==
    IF x \notin Range(list) THEN [list |-> list, raised |-> "ValueError"]
    ELSE LET i == CHOOSE k \in 1..Len(list) :
                      list[k] = x /\ \A j \in 1..(k - 1) : list[j] # x
         IN  [list   |-> SubSeq(list, 1, i - 1) \o SubSeq(list, i + 1, Len(list)),
              raised |-> "none"]

\* setUpClass: the zip path is appended to sys.path and ziptestdata imported;
\* the import caches the path's importer and the module unless the module is
\* cached already.  [sys, cls]
ZipSetUpClass(s) ==
    LET appended == [s EXCEPT !.path = Append(s.path, ZipPath)]
    IN  IF ziptestdataName \in DOMAIN s.modules
        THEN [sys |-> appended,
              cls |-> [zip_path |-> ZipPath,
                       data     |-> s.modules[ziptestdataName]]]
        ELSE [sys |-> [appended EXCEPT
                          !.modules = DictSet(s.modules, ziptestdataName,
                                              EnvModule(ziptestdataName)),
                          !.path_importer_cache =
                              DictSet(s.path_importer_cache, ZipPath, Importer)],
              cls |-> [zip_path |-> ZipPath,
                       data     |-> EnvModule(ziptestdataName)]]

\* tearDownClass: three try blocks.  [sys, raised]
ZipTearDownClass(s, c) ==
    LET removed == ListRemove(s.path, c.zip_path)     \* except ValueError: pass
        s1 == [s EXCEPT !.path = removed.list]
        s2 == IF c.zip_path \notin DOMAIN s1.path_importer_cache
              THEN s1                                  \* except KeyError: pass
              ELSE LET s3 == [s1 EXCEPT !.path_importer_cache =
                                 DictDel(s1.path_importer_cache, c.zip_path)]
                   IN  IF c.data.name \notin DOMAIN s3.modules
                       THEN s3                         \* except KeyError: pass
                       ELSE [s3 EXCEPT !.modules =
                                DictDel(s3.modules, c.data.name)]
    IN  [sys |-> s2, raised |-> "none"]

SetUpClass ==
    /\ cls = None
    /\ Len(sys.path) < MaxPath
    /\ \E r \in {ZipSetUpClass(sys)} :
           /\ sys' = r.sys
           /\ cls' = r.cls
    /\ last' = [op |-> "setUpClass"]
    /\ UNCHANGED <<fs, stack, mock, decorated>>

\* what the tests of the class do to the import state in between
TestAppendPath(entry) ==
    /\ Len(sys.path) < MaxPath
    /\ sys' = [sys EXCEPT !.path = Append(sys.path, entry)]
    /\ last' = [op |-> "body"]
    /\ UNCHANGED <<fs, stack, mock, cls, decorated>>

TestRemovePath(entry) ==
    /\ entry \in Range(sys.path)
    /\ sys' = [sys EXCEPT !.path = ListRemove(sys.path, entry).list]
    /\ last' = [op |-> "body"]
    /\ UNCHANGED <<fs, stack, mock, cls, decorated>>

TestClearImporterCache ==
    /\ sys.path_importer_cache # EmptyDict
    /\ sys' = [sys EXCEPT !.path_importer_cache = EmptyDict]
    /\ last' = [op |-> "body"]
    /\ UNCHANGED <<fs, stack, mock, cls, decorated>>

TestCacheImporter(entry) ==
    /\ entry \notin DOMAIN sys.path_importer_cache
    /\ sys' = [sys EXCEPT !.path_importer_cache =
                  DictSet(sys.path_importer_cache, entry, Importer)]
    /\ last' = [op |-> "body"]
    /\ UNCHANGED <<fs, stack, mock, cls, decorated>>

TearDownClass ==
    /\ cls # None
    /\ \E r \in {ZipTearDownClass(sys, cls)} :
           /\ sys' = r.sys
           /\ last' = [op       |-> "tearDownClass",
                       zip_path |-> cls.zip_path,
                       data     |-> cls.data.name,
                       raised   |-> r.raised,
                       before   |-> sys]
    /\ cls' = None
    /\ UNCHANGED <<fs, stack, mock, decorated>>

InitZip ==
    /\ sys = SysInit({sysName})
    /\ fs = {}
    /\ stack = <<>>
    /\ mock = None
    /\ cls = None
    /\ decorated = None
    /\ last = [op |-> "init"]

NextZip ==
    \/ SetUpClass
    \/ \E entry \in {DirD, ZipPath} : TestAppendPath(entry)
    \/ \E entry \in {DirD, ZipPath} : TestRemovePath(entry)
    \/ TestClearImporterCache
    \/ \E entry \in {DirD, ZipPath} : TestCacheImporter(entry)
    \/ BodyInsertModule(ziptestdataName)
    \/ BodyDeleteModule(ziptestdataName)
    \/ TearDownClass

SpecZip == InitZip /\ [][NextZip]_vars

\* C10: after setUpClass and then tearDownClass, whatever the tests did in
\* between to sys.path, sys.path_importer_cache and sys.modules, the zip path
\* is no element of sys.path and no key of sys.path_importer_cache, the
\* imported ziptestdata module is no key of sys.modules, and tearDownClass
\* raised nothing.
C10_ZipFixtureRemoved ==
    last.op = "tearDownClass" =>
        /\ last.zip_path \notin Range(sys.path)
        /\ last.zip_path \notin DOMAIN sys.path_importer_cache
        /\ last.data \notin DOMAIN sys.modules
        /\ last.raised = "none"

====
